---- MODULE Spec2Model ----
(***************************************************************************)
(* A model of the adon-backend quiz service: the quiz router (POST        *)
(* /create, GET /random, POST /submit), the account endpoints (register,  *)
(* login, profile behind verifyToken) and the relational store they share *)
(* (the tables, unique indexes and foreign keys of the migration).        *)
(*                                                                         *)
(* Every request is a process; it takes one step per store or identity    *)
(* provider operation it awaits, so that requests interleave exactly at   *)
(* the await points of the handlers.                                       *)
(***************************************************************************)
EXTENDS Integers, Sequences, FiniteSets, TLC

VARIABLES
    subjects,   \* table "Subject":     rows [id, name]
    topics,     \* table "Topic":       rows [id, name, subjectId]
    questions,  \* table "Question":    rows [id, text, topicId]
    choices,    \* table "Choice":      rows [id, text, isCorrect, questionId]
    users,      \* table "User":        rows [id, firebaseId, email]
    attempts,   \* table "ExamAttempt": rows [id, score, date, userId]
    fbUsers,    \* accounts of the identity provider: [uid, email]
    tokens,     \* the bearer tokens login has handed to clients
    reqs,       \* the requests received so far, in order of arrival; a request
                \* whose handler has returned leaves nothing behind but the
                \* answer a client got from POST /create
    now,        \* the clock (CURRENT_TIMESTAMP, token expiry)
    quota,      \* how many requests the clients send in this behaviour
    deletes,    \* the row deletions attempted directly on the store, and
                \* whether the store rejected them
    build       \* which of the two index files of the repository is deployed

vars == <<subjects, topics, questions, choices, users, attempts, fbUsers, tokens, reqs, now, quota, deletes, build>>
store == <<subjects, topics, questions, choices, users, attempts>>
world == <<fbUsers, tokens, now, quota, deletes, build>>

----------------------------------------------------------------------------
(* Bounds of the model *)

MaxRequests == 2      \* requests received in one behaviour of the whole service
MaxUserRequests == 3  \* requests received in one behaviour of the user endpoints
MaxInFlight == 2      \* requests being handled at the same time
MaxQuestions == 2     \* questions in one POST /create body
MaxChoices == 2       \* choices of one question
MaxCount == 2         \* largest count asked of GET /random
MaxTime == 1          \* clock ticks
MaxDeletes == 1       \* deletions attempted directly on the store

----------------------------------------------------------------------------
(* Inputs *)

SubjectNames == {"Math", "Physics"}
TopicNames == {"Algebra", "Intro"}
Emails == {"a@x.io", "b@x.io"}
Passwords == {"secret", "short"}
Scores == {7}

\* A JS object is a record; a field that is undefined is absent from its domain.
Has(obj, f) == f \in DOMAIN obj

\* !v of a query-string parameter: it is undefined or the empty string.
Falsy(obj, f) == ~Has(obj, f) \/ obj[f] = ""

ChoiceInputs(k) == [j \in 1..k |-> [text |-> "c", isCorrect |-> (j = 1)]]
QuestionInput(k) == [text |-> "q", choices |-> ChoiceInputs(k)]
\* one list of each length, its questions differing in their number of choices,
\* and one list whose second question has no choices list
QuestionLists ==
    {[i \in 1..n |-> QuestionInput(((i + n) % MaxChoices) + 1)] : n \in 0..MaxQuestions}
    \cup {<<QuestionInput(1), [text |-> "q"]>>}

CreateBodies ==
    {[subjectName |-> s, topicName |-> t, questions |-> qs] :
        s \in SubjectNames, t \in TopicNames, qs \in QuestionLists}
    \cup {[subjectName |-> s, topicName |-> t] : s \in SubjectNames, t \in TopicNames}

\* Row ids are uuids: unique, never reused.  Request r mints <<r, i, j>>.
Id(r, i, j) == <<r, i, j>>
UnknownId == Id(0, 0, 0)

----------------------------------------------------------------------------
(* Requests *)

NewReq(kind, pc, body, auth) ==
    [kind |-> kind, pc |-> pc, body |-> body, auth |-> auth,
     \* when it arrived, and the requests answered before it arrived
     at |-> IF kind \in {"submit", "profile"} THEN now ELSE 0,
     prior |-> IF kind = "create"
               THEN {r \in DOMAIN reqs : reqs[r].pc \in {"done", "closed"}} ELSE {},
     subject |-> {}, topic |-> {}, rows |-> <<>>, pending |-> {},
     out |-> <<>>, failed |-> FALSE, userRecord |-> {}, userId |-> {},
     resp |-> <<>>, ops |-> <<>>]

NoAuth == [present |-> FALSE, token |-> {}]

InFlight == {r \in DOMAIN reqs : reqs[r].pc \notin {"done", "closed"}}
CanStart == Len(reqs) < quota /\ Cardinality(InFlight) < MaxInFlight

Response(status) == [status |-> status, questions |-> <<>>, token |-> {}, user |-> {}]

\* res.status(..).json(..) and the end of the handler
Reply(q, response) == [q EXCEPT !.pc = "done", !.resp = Append(q.resp, response)]
\* the store operation a request issues, in order
Op(q, name) == [q EXCEPT !.ops = Append(q.ops, name)]

Only(S) == CHOOSE x \in S : TRUE

----------------------------------------------------------------------------
(* The store: unique indexes and foreign keys of the migration *)

\* CREATE UNIQUE INDEX "Subject_name_key"
SubjectNameFree(name) == \A s \in subjects : s.name # name
\* Variant: the unique index on Topic.name is missing
TopicNameNotIndexed(name) == TRUE
\* CREATE UNIQUE INDEX "Topic_name_key"
TopicNameFree(name) == \A t \in topics : t.name # name
\* "Topic_subjectId_fkey"
SubjectExists(id) == \E s \in subjects : s.id = id
\* "Question_topicId_fkey"
TopicExists(id) == \E t \in topics : t.id = id
\* Variant: ExamAttempt.userId is not a foreign key
UserNotChecked(id) == TRUE
\* "ExamAttempt_userId_fkey"
UserExists(id) == \E u \in users : u.id = id
\* Variant: User has no unique index
UserKeysNotIndexed(firebaseId, email) == TRUE
\* CREATE UNIQUE INDEX "User_firebaseId_key", "User_email_key"
UserKeysFree(firebaseId, email) ==
    \A u \in users : u.firebaseId # firebaseId /\ u.email # email

\* ON DELETE RESTRICT: a row that is still referenced cannot be deleted
SubjectReferenced(id) == \E t \in topics : t.subjectId = id
\* Variant: Question_topicId_fkey does not restrict deletes
TopicNeverReferenced(id) == FALSE
TopicReferenced(id) == \E q \in questions : q.topicId = id
QuestionReferenced(id) == \E c \in choices : c.questionId = id
UserReferenced(id) == \E a \in attempts : a.userId = id

\* where: { name }: the row a unique name selects, if any
SubjectByName(name) == {s \in subjects : s.name = name}
\* Variant: the topic is created, never looked up
TopicNeverFound(name) == {}
TopicByName(name) == {t \in topics : t.name = name}

----------------------------------------------------------------------------
(* POST /create *)

StartCreate(body) ==
    /\ CanStart
    /\ reqs' = Append(reqs, NewReq("create", "upsertSubject", body, NoAuth))
    /\ UNCHANGED <<store, world>>

\* prisma.subject.upsert, its read: an existing row is returned as it is (update: {})
CreateUpsertSubject(r) ==
    LET q == reqs[r]
        found == SubjectByName(q.body.subjectName)
    IN  /\ q.pc = "upsertSubject"
        /\ reqs' = [reqs EXCEPT ![r] =
                [Op(q, "subject.upsert") EXCEPT
                    !.subject = found,
                    !.pc = IF found # {} THEN "upsertTopic" ELSE "insertSubject"]]
        /\ UNCHANGED <<store, world>>

\* prisma.subject.upsert, its insert: refused by Subject_name_key when a
\* concurrent request created the name in between
CreateInsertSubject(r) ==
    LET q == reqs[r]
        row == [id |-> Id(r, 0, 0), name |-> q.body.subjectName]
    IN  /\ q.pc = "insertSubject"
        /\ IF SubjectNameFree(row.name)
           THEN /\ subjects' = subjects \cup {row}
                /\ reqs' = [reqs EXCEPT ![r] = [q EXCEPT !.subject = {row}, !.pc = "upsertTopic"]]
           ELSE /\ reqs' = [reqs EXCEPT ![r] = Reply(q, Response(500))]
                /\ UNCHANGED subjects
        /\ UNCHANGED <<topics, questions, choices, users, attempts, world>>

\* Variant: every rejected create is answered
RejectEach(q) == [q EXCEPT !.resp = Append(q.resp, Response(500)), !.failed = TRUE]

\* the catch block answers once, at the first rejection of Promise.all
Reject(q) == IF q.resp = <<>> THEN [q EXCEPT !.resp = <<Response(500)>>, !.failed = TRUE]
             ELSE q
\* the handler is over when every create it issued has settled
Settle(q) == IF q.pending = {} /\ q.failed THEN [q EXCEPT !.pc = "done"] ELSE q

\* questions.map(async (q) => ...) inside Promise.all: every create is issued
\* at once; questions undefined makes .map throw, which the catch answers
\* with 500; q.choices undefined makes the callback of that question throw,
\* so its promise is rejected before any create has come back, while the
\* creates of the other questions run on
IssueCreates(q, topic) ==
    IF Has(q.body, "questions")
    THEN LET thrown == {i \in DOMAIN q.body.questions : ~Has(q.body.questions[i], "choices")}
             issued == [q EXCEPT !.topic = topic, !.pc = "createQuestions",
                                 !.pending = DOMAIN q.body.questions \ thrown,
                                 !.out = [i \in DOMAIN q.body.questions |-> {}]]
         IN  Settle(IF thrown # {} THEN Reject(issued) ELSE issued)
    ELSE Reply([q EXCEPT !.topic = topic], Response(500))

\* Variant: the update of the upsert moves the topic to the requested subject
CreateUpsertTopicReassign(r) ==
    LET q == reqs[r]
        found == TopicByName(q.body.topicName)
        moved == {[t EXCEPT !.subjectId = Only(q.subject).id] : t \in found}
    IN  /\ q.pc = "upsertTopic"
        /\ reqs' = [reqs EXCEPT ![r] =
                IF found # {} THEN IssueCreates(Op(q, "topic.upsert"), moved)
                ELSE [Op(q, "topic.upsert") EXCEPT !.pc = "insertTopic"]]
        /\ topics' = (topics \ found) \cup moved
        /\ UNCHANGED <<subjects, questions, choices, users, attempts, world>>

\* prisma.topic.upsert, its read: an existing row is returned as it is
\* (update: {}), whatever subject it belongs to
CreateUpsertTopic(r) ==
    LET q == reqs[r]
        found == TopicByName(q.body.topicName)
    IN  /\ q.pc = "upsertTopic"
        /\ reqs' = [reqs EXCEPT ![r] =
                IF found # {} THEN IssueCreates(Op(q, "topic.upsert"), found)
                ELSE [Op(q, "topic.upsert") EXCEPT !.pc = "insertTopic"]]
        /\ UNCHANGED <<store, world>>

\* Variant: the handler goes on before the insert of the topic is in the store
CreateInsertTopicDeferred(r) ==
    LET q == reqs[r]
        row == [id |-> Id(r, 0, 0), name |-> q.body.topicName,
                subjectId |-> Only(q.subject).id]
    IN  /\ q.pc = "insertTopic"
        /\ reqs' = [reqs EXCEPT ![r] = IssueCreates(q, {row})]
        /\ UNCHANGED <<store, world>>

\* prisma.topic.upsert, its insert, with subjectId: subject.id
CreateInsertTopic(r) ==
    LET q == reqs[r]
        row == [id |-> Id(r, 0, 0), name |-> q.body.topicName,
                subjectId |-> Only(q.subject).id]
    IN  /\ q.pc = "insertTopic"
        /\ IF TopicNameFree(row.name) /\ SubjectExists(row.subjectId)
           THEN /\ topics' = topics \cup {row}
                /\ reqs' = [reqs EXCEPT ![r] = IssueCreates(q, {row})]
           ELSE /\ reqs' = [reqs EXCEPT ![r] = Reply(q, Response(500))]
                /\ UNCHANGED topics
        /\ UNCHANGED <<subjects, questions, choices, users, attempts, world>>

\* the record prisma.question.create resolves to: no include, so the
\* scalar fields of the Question row
CreatedQuestion(row) == [id |-> row.id, text |-> row.text, topicId |-> row.topicId]

\* Variant: the question is written by itself, its choices are not
CreateQuestionAlone(r, i) ==
    LET q == reqs[r]
        in == q.body.questions[i]
        row == [id |-> Id(r, i, 0), text |-> in.text, topicId |-> Only(q.topic).id]
        left == [Op(q, "question.create") EXCEPT !.pending = q.pending \ {i}]
    IN  /\ q.pc = "createQuestions"
        /\ i \in q.pending
        /\ questions' = questions \cup {row}
        /\ reqs' = [reqs EXCEPT ![r] = Settle([left EXCEPT !.out[i] = {CreatedQuestion(row)}])]
        /\ UNCHANGED <<subjects, topics, choices, users, attempts, world>>

\* Variant: once the call has failed, a compensating step takes back the
\* topic the call created instead of letting the remaining creates commit
CreateQuestionCompensating(r, i) ==
    LET q == reqs[r]
        in == q.body.questions[i]
        row == [id |-> Id(r, i, 0), text |-> in.text, topicId |-> Only(q.topic).id]
        left == [Op(q, "question.create") EXCEPT !.pending = q.pending \ {i}]
    IN  /\ q.pc = "createQuestions"
        /\ i \in q.pending
        /\ IF q.failed
           THEN /\ topics' = {t \in topics : t.id # Id(r, 0, 0)}
                /\ reqs' = [reqs EXCEPT ![r] = Settle(left)]
                /\ UNCHANGED <<questions, choices>>
           ELSE /\ questions' = questions \cup {row}
                /\ choices' = choices \cup
                        {[id |-> Id(r, i, j), text |-> in.choices[j].text,
                          isCorrect |-> in.choices[j].isCorrect, questionId |-> row.id] :
                                j \in DOMAIN in.choices}
                /\ reqs' = [reqs EXCEPT ![r] =
                        Settle([left EXCEPT !.out[i] = {CreatedQuestion(row)}])]
                /\ UNCHANGED topics
        /\ UNCHANGED <<subjects, users, attempts, world>>

\* prisma.question.create with nested choices.create, one statement group
\* that commits or fails as a whole
CreateQuestion(r, i) ==
    LET q == reqs[r]
        in == q.body.questions[i]
        row == [id |-> Id(r, i, 0), text |-> in.text, topicId |-> Only(q.topic).id]
        nested == {[id |-> Id(r, i, j), text |-> in.choices[j].text,
                    isCorrect |-> in.choices[j].isCorrect, questionId |-> row.id] :
                        j \in DOMAIN in.choices}
        left == [Op(q, "question.create") EXCEPT !.pending = q.pending \ {i}]
    IN  /\ q.pc = "createQuestions"
        /\ i \in q.pending
        /\ IF TopicExists(row.topicId)
           THEN /\ questions' = questions \cup {row}
                /\ choices' = choices \cup nested
                /\ reqs' = [reqs EXCEPT ![r] =
                        Settle([left EXCEPT !.out[i] = {CreatedQuestion(row)}])]
           ELSE /\ reqs' = [reqs EXCEPT ![r] = Settle(Reject(left))]
                /\ UNCHANGED <<questions, choices>>
        /\ UNCHANGED <<subjects, topics, users, attempts, world>>

\* res.status(201).json({ message, questions: createdQuestions })
CreateRespond(r) ==
    LET q == reqs[r]
        createdQuestions == [i \in DOMAIN q.out |-> Only(q.out[i])]
    IN  /\ q.pc = "createQuestions"
        /\ q.pending = {}
        /\ ~q.failed
        /\ reqs' = [reqs EXCEPT ![r] =
                Reply(q, [Response(201) EXCEPT !.questions = createdQuestions])]
        /\ UNCHANGED <<store, world>>

----------------------------------------------------------------------------
(* Rows deleted directly on the store (no handler deletes): ON DELETE RESTRICT *)

\* DELETE FROM the table WHERE id = ..., refused while the row is referenced
Deletion(table, id, referenced) ==
    /\ Len(deletes) < MaxDeletes
    /\ deletes' = Append(deletes, [table |-> table, id |-> id, rejected |-> referenced])

DeleteSubject(id) ==
    /\ Deletion("Subject", id, SubjectReferenced(id))
    /\ subjects' = IF SubjectReferenced(id) THEN subjects ELSE {s \in subjects : s.id # id}
    /\ UNCHANGED <<topics, questions, choices, users, attempts, fbUsers, tokens, reqs, now, quota, build>>

DeleteTopic(id) ==
    /\ Deletion("Topic", id, TopicReferenced(id))
    /\ topics' = IF TopicReferenced(id) THEN topics ELSE {t \in topics : t.id # id}
    /\ UNCHANGED <<subjects, questions, choices, users, attempts, fbUsers, tokens, reqs, now, quota, build>>

DeleteQuestion(id) ==
    /\ Deletion("Question", id, QuestionReferenced(id))
    /\ questions' = IF QuestionReferenced(id) THEN questions ELSE {x \in questions : x.id # id}
    /\ UNCHANGED <<subjects, topics, choices, users, attempts, fbUsers, tokens, reqs, now, quota, build>>

DeleteUser(id) ==
    /\ Deletion("User", id, UserReferenced(id))
    /\ users' = IF UserReferenced(id) THEN users ELSE {u \in users : u.id # id}
    /\ UNCHANGED <<subjects, topics, questions, choices, attempts, fbUsers, tokens, reqs, now, quota, build>>

Tick ==
    /\ now < MaxTime
    /\ now' = now + 1
    /\ UNCHANGED <<store, fbUsers, tokens, reqs, quota, deletes, build>>

----------------------------------------------------------------------------
(* GET /random *)

CountParams == {"", "abc"} \cup {ToString(i) : i \in -1..MaxCount}

RandomQueries ==
    {[topicName |-> t, count |-> c] : t \in TopicNames, c \in CountParams}
    \cup {[topicName |-> t] : t \in TopicNames}
    \cup {[count |-> "1"], [topicName |-> "", count |-> "1"]}

\* Number(count) of a query-string parameter: an integer, or NaN
Number(s) ==
    IF s = "" THEN [nan |-> FALSE, val |-> 0]
    ELSE IF \E i \in -1..MaxCount : ToString(i) = s
         THEN [nan |-> FALSE, val |-> CHOOSE i \in -1..MaxCount : ToString(i) = s]
         ELSE [nan |-> TRUE, val |-> 0]

\* if (!topicName || !count) return res.status(400)
StartRandom(query) ==
    /\ CanStart
    /\ reqs' = Append(reqs,
            IF Falsy(query, "topicName") \/ Falsy(query, "count")
            THEN Reply(NewReq("random", "validate", query, NoAuth), Response(400))
            ELSE NewReq("random", "findTopic", query, NoAuth))
    /\ UNCHANGED <<store, world>>

\* Variant: an unknown topic is answered with an empty list
TopicFoundOrEmpty(q, found) ==
    IF found = {} THEN Reply(q, Response(200))
    ELSE [q EXCEPT !.topic = found, !.pc = "queryRaw"]

\* const topic = await prisma.topic.findUnique(...);
\* if (!topic) return res.status(404)
TopicFound(q, found) ==
    IF found = {} THEN Reply(q, Response(404))
    ELSE [q EXCEPT !.topic = found, !.pc = "queryRaw"]

RandomFindTopic(r) ==
    LET q == reqs[r]
    IN  /\ q.pc = "findTopic"
        /\ reqs' = [reqs EXCEPT ![r] =
                TopicFound(Op(q, "topic.findUnique"), TopicByName(q.body.topicName))]
        /\ UNCHANGED <<store, world>>

\* SELECT id, text, "topicId" FROM "Question" WHERE "topicId" = ${topic.id}
Eligible(topicId) == {x \in questions : x.topicId = topicId}

\* Variant: the statement has no LIMIT
SamplesUnlimited(rows, n) ==
    {f \in [1..Cardinality(rows) -> rows] :
        \A i, j \in 1..Cardinality(rows) : i # j => f[i] # f[j]}

\* ORDER BY RANDOM() LIMIT n: the rows in an order of the store's choosing,
\* cut after n of them; every row of the table appears once
Samples(rows, n) ==
    LET m == IF n < Cardinality(rows) THEN n ELSE Cardinality(rows)
    IN  {f \in [1..m -> rows] : \A i, j \in 1..m : i # j => f[i] # f[j]}

\* What LIMIT ${Number(count)} makes of the statement: the store refuses a
\* negative quota; NaN is no number the driver can bind, so the statement
\* either fails or runs with no quota (LIMIT NULL)
QueryRawResults(topicId, limit) ==
    IF limit.nan
    THEN {[error |-> TRUE, rows |-> <<>>]}
         \cup {[error |-> FALSE, rows |-> f] :
                    f \in Samples(Eligible(topicId), Cardinality(Eligible(topicId)))}
    ELSE IF limit.val < 0
         THEN {[error |-> TRUE, rows |-> <<>>]}
         ELSE {[error |-> FALSE, rows |-> f] : f \in Samples(Eligible(topicId), limit.val)}

RandomQueryRaw(r) ==
    LET q == reqs[r]
    IN  /\ q.pc = "queryRaw"
        /\ \E res \in QueryRawResults(Only(q.topic).id, Number(q.body.count)) :
              reqs' = [reqs EXCEPT ![r] =
                  IF res.error THEN Reply(Op(q, "$queryRaw"), Response(500))
                  ELSE [Op(q, "$queryRaw") EXCEPT
                            !.rows = res.rows, !.pc = "findChoices",
                            !.pending = DOMAIN res.rows,
                            !.out = [i \in DOMAIN res.rows |-> {}]]]
        /\ UNCHANGED <<store, world>>

\* Variant: findMany without the select
SelectWholeChoice(c) == c

\* select: { id: true, text: true }
SelectChoice(c) == [id |-> c.id, text |-> c.text]

\* prisma.choice.findMany({ where: { questionId: q.id }, select })
\* and return { ...q, choices }
RandomFindChoices(r, i) ==
    LET q == reqs[r]
        row == q.rows[i]
        found == {SelectChoice(c) : c \in {c \in choices : c.questionId = row.id}}
        withChoices == [id |-> row.id, text |-> row.text, topicId |-> row.topicId,
                        choices |-> found]
    IN  /\ q.pc = "findChoices"
        /\ i \in q.pending
        /\ reqs' = [reqs EXCEPT ![r] =
                [Op(q, "choice.findMany") EXCEPT
                    !.pending = q.pending \ {i}, !.out[i] = {withChoices}]]
        /\ UNCHANGED <<store, world>>

\* res.status(200).json({ questions: questionsWithChoices })
RandomRespond(r) ==
    LET q == reqs[r]
        questionsWithChoices == [i \in DOMAIN q.out |-> Only(q.out[i])]
    IN  /\ q.pc = "findChoices"
        /\ q.pending = {}
        /\ reqs' = [reqs EXCEPT ![r] =
                Reply(q, [Response(200) EXCEPT !.questions = questionsWithChoices])]
        /\ UNCHANGED <<store, world>>

----------------------------------------------------------------------------
(* Bearer credentials: jwt.sign / jwt.verify with JWT_SECRET *)

TokenTTL == 1     \* expiresIn: '1h', in ticks of the clock

\* jwt.sign({ id }, JWT_SECRET, { expiresIn: '1h' })
Sign(id) == [id |-> id, key |-> "JWT_SECRET", exp |-> now + TokenTTL]

\* the tokens login has handed out
\* tokens signed with another key, and strings that are no JWT at all
Forged == {[id |-> u.uid, key |-> "other", exp |-> MaxTime + TokenTTL] : u \in fbUsers}
            \cup {[id |-> UnknownId, key |-> "none", exp |-> 0]}

\* the Authorization headers a client may send: none, "Bearer" with nothing
\* after it, "Bearer <token>"
Credentials ==
    {NoAuth, [present |-> TRUE, token |-> {}]}
    \cup {[present |-> TRUE, token |-> {t}] : t \in tokens \cup Forged}

\* jwt.verify(token, JWT_SECRET) does not throw
Verifies(t) == t.key = "JWT_SECRET" /\ now < t.exp

\* verifyToken: the principal next() runs with, none when it answers 401
verifyToken(auth) ==
    IF ~auth.present THEN {}
    ELSE IF auth.token = {} THEN {}
    ELSE IF Verifies(Only(auth.token)) THEN {Only(auth.token).id}
    ELSE {}

----------------------------------------------------------------------------
(* POST /submit *)

SubmitBodies == {[userId |-> u, score |-> s] :
                    u \in {x.id : x \in users} \cup {UnknownId}, s \in Scores}

\* The middleware in front of the quiz router: app.use('/api/quiz',
\* verifyToken, quizRoutes) is commented out and the router registers no
\* middleware of its own, so every request reaches its handler.
QuizGuard(auth) == {UnknownId}

StartSubmit(body, auth) ==
    /\ CanStart
    /\ reqs' = Append(reqs,
            IF QuizGuard(auth) = {}
            THEN Reply(NewReq("submit", "verifyToken", body, auth), Response(401))
            ELSE NewReq("submit", "createAttempt", body, auth))
    /\ UNCHANGED <<store, world>>

\* Variant: the score of the body is not the one stored
NewAttemptZeroScore(r, body) ==
    [id |-> Id(r, 0, 0), score |-> 0, date |-> now, userId |-> body.userId]

\* data: { score: score, userId: userId }; id and date take their defaults
NewAttempt(r, body) ==
    [id |-> Id(r, 0, 0), score |-> body.score, date |-> now, userId |-> body.userId]

\* prisma.examAttempt.create
SubmitCreate(r) ==
    LET q == reqs[r]
        row == NewAttempt(r, q.body)
    IN  /\ q.pc = "createAttempt"
        /\ IF UserExists(row.userId)
           THEN /\ attempts' = attempts \cup {row}
                /\ reqs' = [reqs EXCEPT ![r] = Reply(Op(q, "examAttempt.create"), Response(200))]
           ELSE /\ reqs' = [reqs EXCEPT ![r] = Reply(Op(q, "examAttempt.create"), Response(500))]
                /\ UNCHANGED attempts
        /\ UNCHANGED <<subjects, topics, questions, choices, users, world>>

----------------------------------------------------------------------------
(* POST /api/register, POST /api/login, GET /api/profile *)

RegisterBodies == {[email |-> e, password |-> p] : e \in Emails, p \in Passwords}
                    \cup {[password |-> "secret"]}
LoginBodies == {[email |-> e] : e \in Emails}

\* if (!email || !password || password.length < 6) return res.status(400)
StartRegister(body) ==
    /\ CanStart
    /\ reqs' = Append(reqs,
            IF Falsy(body, "email") \/ Falsy(body, "password") \/ Len(body.password) < 6
            THEN Reply(NewReq("register", "validate", body, NoAuth), Response(400))
            ELSE NewReq("register", "createUser", body, NoAuth))
    /\ UNCHANGED <<store, world>>

\* the code admin.auth().createUser rejects a known email with
EmailExistsCode == "auth/email-already-exists"
\* the status the catch block of register gives an error code
RegisterErrorStatus(code) == IF code = "auth/email-already-in-use" THEN 409 ELSE 500

\* admin.auth().createUser({ email, password })
RegisterFbCreate(r) ==
    LET q == reqs[r]
        userRecord == [uid |-> Id(r, 0, 0), email |-> q.body.email]
    IN  /\ q.pc = "createUser"
        /\ IF \E u \in fbUsers : u.email = q.body.email
           THEN /\ reqs' = [reqs EXCEPT ![r] =
                        Reply(q, Response(RegisterErrorStatus(EmailExistsCode)))]
                /\ UNCHANGED fbUsers
           ELSE /\ fbUsers' = fbUsers \cup {userRecord}
                /\ reqs' = [reqs EXCEPT ![r] =
                        [q EXCEPT !.userRecord = {userRecord}, !.pc = "userCreate"]]
        /\ UNCHANGED <<store, tokens, now, quota, deletes, build>>

\* prisma.user.create({ data: { firebaseId, email } }) and the answer that
\* follows it; login signs its token after the create
UserCreate(r, q, firebaseId, email, status) ==
    LET row == [id |-> Id(r, 1, 0), firebaseId |-> firebaseId, email |-> email]
        token == IF q.kind = "login" THEN {Sign(firebaseId)} ELSE {}
        created == [Response(status) EXCEPT !.user = {row}, !.token = token]
    IN  IF UserKeysFree(firebaseId, email)
        THEN /\ users' = users \cup {row}
             /\ tokens' = tokens \cup token
             /\ reqs' = [reqs EXCEPT ![r] = Reply(Op(q, "user.create"), created)]
        ELSE /\ reqs' = [reqs EXCEPT ![r] = Reply(Op(q, "user.create"), Response(500))]
             /\ UNCHANGED <<users, tokens>>

RegisterUserCreate(r) ==
    LET q == reqs[r]
    IN  /\ q.pc = "userCreate"
        /\ q.kind = "register"
        /\ UserCreate(r, q, Only(q.userRecord).uid, q.body.email, 201)
        /\ UNCHANGED <<subjects, topics, questions, choices, attempts, fbUsers, now, quota, deletes, build>>

StartLogin(body) ==
    /\ CanStart
    /\ reqs' = Append(reqs, NewReq("login", "getUserByEmail", body, NoAuth))
    /\ UNCHANGED <<store, world>>

\* admin.auth().getUserByEmail(email); auth/user-not-found is answered 401
LoginGetUser(r) ==
    LET q == reqs[r]
        found == {u \in fbUsers : u.email = q.body.email}
    IN  /\ q.pc = "getUserByEmail"
        /\ reqs' = [reqs EXCEPT ![r] =
                IF found = {} THEN Reply(q, Response(401))
                ELSE [q EXCEPT !.userRecord = found, !.pc = "findUser"]]
        /\ UNCHANGED <<store, world>>

\* Variant: the token is signed whether or not the row was found
LoginFindUserTokenAnyway(r) ==
    LET q == reqs[r]
        uid == Only(q.userRecord).uid
        found == {u \in users : u.firebaseId = uid}
    IN  /\ q.pc = "findUser"
        /\ q.kind = "login"
        /\ reqs' = [reqs EXCEPT ![r] =
                Reply(Op(q, "user.findUnique"),
                      [Response(200) EXCEPT !.token = {Sign(uid)}, !.user = found])]
        /\ UNCHANGED <<store, world>>

\* prisma.user.findUnique({ where: { firebaseId: userRecord.uid } }), then
\* the token and the 200 when the row exists; when it does not, the earlier
\* index file answers 404 and the later one goes on to create the row
LoginFindUser(r) ==
    LET q == reqs[r]
        uid == Only(q.userRecord).uid
        found == {u \in users : u.firebaseId = uid}
    IN  /\ q.pc = "findUser"
        /\ q.kind = "login"
        /\ reqs' = [reqs EXCEPT ![r] =
                IF found = {}
                THEN IF build = "part_000"
                     THEN Reply(Op(q, "user.findUnique"), Response(404))
                     ELSE [Op(q, "user.findUnique") EXCEPT !.pc = "userCreate"]
                ELSE Reply(Op(q, "user.findUnique"),
                           [Response(200) EXCEPT !.token = {Sign(uid)}, !.user = found])]
        /\ UNCHANGED <<store, world>>

\* the defensive create of login: email: userRecord.email || email
LoginUserCreate(r) ==
    LET q == reqs[r]
    IN  /\ q.pc = "userCreate"
        /\ q.kind = "login"
        /\ UserCreate(r, q, Only(q.userRecord).uid, Only(q.userRecord).email, 200)
        /\ UNCHANGED <<subjects, topics, questions, choices, attempts, fbUsers, now, quota, deletes, build>>

\* app.get('/api/profile', verifyToken, ...)
StartProfile(auth) ==
    /\ CanStart
    /\ reqs' = Append(reqs,
            IF verifyToken(auth) = {}
            THEN Reply(NewReq("profile", "verifyToken", <<>>, auth), Response(401))
            ELSE [NewReq("profile", "findUser", <<>>, auth) EXCEPT !.userId = verifyToken(auth)])
    /\ UNCHANGED <<store, world>>

\* prisma.user.findUnique({ where: { firebaseId: userId } })
ProfileFindUser(r) ==
    LET q == reqs[r]
        found == {u \in users : u.firebaseId = Only(q.userId)}
    IN  /\ q.pc = "findUser"
        /\ q.kind = "profile"
        /\ reqs' = [reqs EXCEPT ![r] =
                IF found = {} THEN Reply(Op(q, "user.findUnique"), Response(404))
                ELSE Reply(Op(q, "user.findUnique"), [Response(200) EXCEPT !.user = found])]
        /\ UNCHANGED <<store, world>>

----------------------------------------------------------------------------
(* The end of a request *)

\* What is left of a request once its handler has returned: nothing in the
\* process; of a POST /create the client keeps what it sent and was answered.
Closed(q) ==
    IF q.kind = "create"
    THEN [NewReq("create", "closed", q.body, NoAuth) EXCEPT
                !.at = q.at, !.prior = q.prior, !.resp = q.resp]
    ELSE [NewReq("closed", "closed", <<>>, NoAuth) EXCEPT !.at = 0, !.prior = {}]

Close(r) ==
    /\ reqs[r].pc = "done"
    /\ reqs' = [reqs EXCEPT ![r] = Closed(reqs[r])]
    /\ UNCHANGED <<store, world>>

----------------------------------------------------------------------------
(* The system *)

\* the two index files: src/src/index.ts and the earlier unnamed/part_000
Builds == {"index.ts", "part_000"}

\* An empty database, and an identity provider that already knows one
\* account the database has no row for (the case the defensive create of
\* login is written for).
Store0 ==
    /\ subjects = {} /\ topics = {} /\ questions = {} /\ choices = {}
    /\ users = {} /\ attempts = {} /\ tokens = {}
    /\ fbUsers = {[uid |-> Id(0, 1, 0), email |-> "b@x.io"]}
    /\ reqs = <<>>
    /\ now = 0
    /\ deletes = <<>>
    /\ build \in Builds

\* the quiz catalog: POST /create and GET /random
NextCatalog ==
    \/ \E body \in CreateBodies : StartCreate(body)
    \/ \E r \in DOMAIN reqs : CreateUpsertSubject(r)
    \/ \E r \in DOMAIN reqs : CreateInsertSubject(r)
    \/ \E r \in DOMAIN reqs : CreateUpsertTopic(r)
    \/ \E r \in DOMAIN reqs : CreateInsertTopic(r)
    \/ \E r \in DOMAIN reqs : \E i \in reqs[r].pending : CreateQuestion(r, i)
    \/ \E r \in DOMAIN reqs : CreateRespond(r)
    \/ \E query \in RandomQueries : StartRandom(query)
    \/ \E r \in DOMAIN reqs : RandomFindTopic(r)
    \/ \E r \in DOMAIN reqs : RandomQueryRaw(r)
    \/ \E r \in DOMAIN reqs : \E i \in reqs[r].pending : RandomFindChoices(r, i)
    \/ \E r \in DOMAIN reqs : RandomRespond(r)
    \/ \E s \in subjects : DeleteSubject(s.id)
    \/ \E t \in topics : DeleteTopic(t.id)
    \/ \E x \in questions : DeleteQuestion(x.id)

\* users and their attempts: register, login, profile and POST /submit
NextUsers ==
    \/ \E body \in SubmitBodies, auth \in Credentials : StartSubmit(body, auth)
    \/ \E r \in DOMAIN reqs : SubmitCreate(r)
    \/ \E body \in RegisterBodies : StartRegister(body)
    \/ \E r \in DOMAIN reqs : RegisterFbCreate(r)
    \/ \E r \in DOMAIN reqs : RegisterUserCreate(r)
    \/ \E body \in LoginBodies : StartLogin(body)
    \/ \E r \in DOMAIN reqs : LoginGetUser(r)
    \/ \E r \in DOMAIN reqs : LoginFindUser(r)
    \/ \E r \in DOMAIN reqs : LoginUserCreate(r)
    \/ \E auth \in Credentials : StartProfile(auth)
    \/ \E r \in DOMAIN reqs : ProfileFindUser(r)
    \/ \E u \in users : DeleteUser(u.id)
    \/ Tick

Finish == \E r \in DOMAIN reqs : Close(r)

\* the whole service
Init == Store0 /\ quota = MaxRequests
Next == NextCatalog \/ NextUsers \/ Finish
Spec == Init /\ [][Next]_vars

\* POST /create and GET /random alone, with the deletions on their tables
SpecCatalog == Init /\ [][NextCatalog \/ Finish]_vars

\* the user endpoints and POST /submit alone: they share no table with the
\* catalog, and take more requests
InitUsers == Store0 /\ quota = MaxUserRequests
SpecUsers == InitUsers /\ [][NextUsers \/ Finish]_vars

\* the quiz router, with the logins that give POST /submit a user to name
NextQuiz ==
    \/ NextCatalog
    \/ \E body \in SubmitBodies, auth \in Credentials : StartSubmit(body, auth)
    \/ \E r \in DOMAIN reqs : SubmitCreate(r)
    \/ \E body \in LoginBodies : StartLogin(body)
    \/ \E r \in DOMAIN reqs : LoginGetUser(r)
    \/ \E r \in DOMAIN reqs : LoginFindUser(r)
    \/ \E r \in DOMAIN reqs : LoginUserCreate(r)

\* the next step of the handler of request r: the operation it awaits
\* completes, or it answers
Handle(r) ==
    \/ CreateUpsertSubject(r) \/ CreateInsertSubject(r)
    \/ CreateUpsertTopic(r) \/ CreateInsertTopic(r)
    \/ \E i \in reqs[r].pending : CreateQuestion(r, i)
    \/ CreateRespond(r)
    \/ RandomFindTopic(r) \/ RandomQueryRaw(r)
    \/ \E i \in reqs[r].pending : RandomFindChoices(r, i)
    \/ RandomRespond(r)
    \/ SubmitCreate(r)
    \/ LoginGetUser(r) \/ LoginFindUser(r) \/ LoginUserCreate(r)

\* the quiz router when every operation a handler awaits completes
InitQuiz == Store0 /\ build = "index.ts" /\ quota = MaxRequests
SpecQuiz ==
    /\ InitQuiz /\ [][NextQuiz \/ Finish]_vars
    /\ WF_vars(\E r \in DOMAIN reqs : Handle(r))

----------------------------------------------------------------------------
(* Properties *)

Answered(q) == q.resp # <<>>
Status(q) == q.resp[1].status
Requests(kind) == {r \in DOMAIN reqs : reqs[r].kind = kind}
MinOf(a, b) == IF a < b THEN a ELSE b

\* count is a positive integer
PositiveCount(q) == ~Number(q.body.count).nan /\ Number(q.body.count).val > 0

C1_Answer ==
    \A r \in Requests("random") :
        LET q == reqs[r]
            list == q.resp[1].questions
        IN  (q.pc = "done" /\ Status(q) = 200 /\ PositiveCount(q)) =>
                /\ Len(list) <= Number(q.body.count).val
                /\ \A i \in DOMAIN list : list[i].topicId = Only(q.topic).id
                /\ \A i, j \in DOMAIN list : i # j => list[i].id # list[j].id
                /\ DOMAIN list = DOMAIN q.rows
                /\ \A i \in DOMAIN list : list[i].id = q.rows[i].id

C1_Select(r) ==
    LET q == reqs[r]
        stored == {x \in questions : x.topicId = Only(q.topic).id}
        n == Number(q.body.count).val
        rows == reqs'[r].rows
    IN  (q.kind = "random" /\ q.pc = "queryRaw" /\ reqs'[r] # q /\ PositiveCount(q)) =>
            /\ reqs'[r].pc = "findChoices"
            /\ \A i \in DOMAIN rows : rows[i] \in stored
            /\ Len(rows) >= MinOf(n, Cardinality(stored))
            /\ n >= Cardinality(stored) => {rows[i] : i \in DOMAIN rows} = stored

\* C1: for an existing topic and a positive integer count, GET /random
\* answers with questions of that topic only, no id twice, at most count of
\* them and at least min(count, questions stored for the topic when they are
\* selected); a count above what is stored is no error and yields them all.
C1_SampleBounds == []C1_Answer /\ [][\A r \in DOMAIN reqs : C1_Select(r)]_vars

\* a count of 2 answered with the single question the topic holds
C1_OverRequest ==
    \E r \in Requests("random") :
        /\ reqs[r].pc = "done" /\ Status(reqs[r]) = 200
        /\ reqs[r].body.count = "2"
        /\ Len(reqs[r].resp[1].questions) = 1
        /\ Cardinality({x \in questions : x.topicId = Only(reqs[r].topic).id}) = 1

\* C2: no choice in an answer of GET /random carries anything but id and
\* text, whatever isCorrect is stored for it.
C2_NoIsCorrect ==
    \A r \in Requests("random") :
        \A k \in DOMAIN reqs[r].resp :
            \A i \in DOMAIN reqs[r].resp[k].questions :
                \A c \in reqs[r].resp[k].questions[i].choices : DOMAIN c = {"id", "text"}

\* an answer holding a choice that is stored as the correct one
C2_CorrectChoiceServed ==
    \E r \in Requests("random") :
        /\ reqs[r].pc = "done" /\ Status(reqs[r]) = 200
        /\ \E i \in DOMAIN reqs[r].resp[1].questions :
             \E c \in reqs[r].resp[1].questions[i].choices :
                \E x \in choices : x.id = c.id /\ x.isCorrect

\* C3: the questions POST /create answers with are as many as the body
\* holds, and each carries its nested choices, as many as the body gave it.
C3_ReturnsNestedChoices ==
    \A r \in Requests("create") :
        LET q == reqs[r]
            list == q.resp[1].questions
        IN  (Answered(q) /\ Status(q) = 201) =>
                /\ Len(list) = Len(q.body.questions)
                /\ \A i \in DOMAIN list :
                      /\ Has(list[i], "choices")
                      /\ Len(list[i].choices) = Len(q.body.questions[i].choices)

\* the body has a list of questions and each of them a list of choices
WellFormed(body) ==
    /\ Has(body, "questions")
    /\ \A i \in DOMAIN body.questions : Has(body.questions[i], "choices")

\* r2 is a POST /create that arrived after r1, a POST /create for the same
\* subject and topic, had been answered 201; nothing was deleted on the store
Twice(r1, r2) ==
    /\ reqs[r1].kind = "create" /\ reqs[r2].kind = "create"
    /\ r1 \in reqs[r2].prior
    /\ reqs[r1].body.subjectName = reqs[r2].body.subjectName
    /\ reqs[r1].body.topicName = reqs[r2].body.topicName
    /\ Status(reqs[r1]) = 201
    /\ WellFormed(reqs[r1].body) /\ WellFormed(reqs[r2].body)
    /\ reqs[r2].pc \in {"done", "closed"}
    /\ deletes = <<>>

\* the questions of call r are stored under topic t with all their choices
QuestionsStored(r, t) ==
    \A i \in DOMAIN reqs[r].body.questions :
        /\ \E x \in questions : x.id = Id(r, i, 0) /\ x.topicId = t.id
        /\ Cardinality({c \in choices : c.questionId = Id(r, i, 0)})
                = Len(reqs[r].body.questions[i].choices)

\* C4: two POST /create in a row for the same subject and topic leave one
\* Subject row and one Topic row of those names, and the questions and
\* choices of both calls are in the store.
C4_CreateTwice ==
    \A r1, r2 \in DOMAIN reqs :
        Twice(r1, r2) =>
            /\ Status(reqs[r2]) = 201
            /\ Cardinality({x \in subjects : x.name = reqs[r2].body.subjectName}) = 1
            /\ Cardinality({t \in topics : t.name = reqs[r2].body.topicName}) = 1
            /\ \A t \in topics : t.name = reqs[r2].body.topicName =>
                    QuestionsStored(r1, t) /\ QuestionsStored(r2, t)

C4_TwoSets ==
    \E r1, r2 \in DOMAIN reqs :
        /\ Twice(r1, r2)
        /\ reqs[r1].body.questions # <<>> /\ reqs[r2].body.questions # <<>>

RefIntegrity ==
    /\ \A t \in topics : \E x \in subjects : x.id = t.subjectId
    /\ \A x \in questions : \E t \in topics : t.id = x.topicId
    /\ \A c \in choices : \E x \in questions : x.id = c.questionId
    /\ \A a \in attempts : \E u \in users : u.id = a.userId

Restricted ==
    /\ \A x \in subjects : (\E t \in topics : t.subjectId = x.id) => x \in subjects'
    /\ \A t \in topics : (\E x \in questions : x.topicId = t.id) => t \in topics'
    /\ \A x \in questions : (\E c \in choices : c.questionId = x.id) => x \in questions'
    /\ \A u \in users : (\E a \in attempts : a.userId = u.id) => u \in users'

\* C5: in every state every subjectId, topicId, questionId and userId names
\* an existing row, and no step removes a row that is still referenced.
C5_Referential == []RefIntegrity /\ [][Restricted]_vars

\* the store has refused the deletion of a row that is referenced
C5_DeleteRefused ==
    \E i \in DOMAIN deletes : deletes[i].rejected /\ deletes[i].table = "Topic"

\* C6: no two Subject rows and no two Topic rows have the same name.
C6_UniqueNames ==
    /\ \A x, y \in subjects : x.name = y.name => x = y
    /\ \A x, y \in topics : x.name = y.name => x = y

\* two POST /create at the same time for one new topic: one created it,
\* the insert of the other was refused
C6_LostInsert ==
    \E r1, r2 \in Requests("create") :
        /\ r1 # r2 /\ r1 \notin reqs[r2].prior
        /\ reqs[r1].body.topicName = reqs[r2].body.topicName
        /\ reqs[r2].pc = "done" /\ Status(reqs[r2]) = 500
        /\ reqs[r2].ops = <<"subject.upsert", "topic.upsert">>
        /\ \E t \in topics : t.name = reqs[r2].body.topicName /\ t.id = Id(r1, 0, 0)

C7_Insert(r) ==
    LET q == reqs[r]
    IN  (q.kind = "submit" /\ q.pc = "createAttempt"
            /\ reqs'[r].pc = "done" /\ Status(reqs'[r]) = 200) =>
            \E a \in attempts' :
                /\ a \notin attempts
                /\ attempts' = attempts \cup {a}
                /\ a.score = q.body.score
                /\ a.userId = q.body.userId
                /\ a.date = now

\* C7: a POST /submit answered 200 has added one ExamAttempt row, with the
\* score and userId of the body and the time of the insert as date; no step
\* changes or removes a row of ExamAttempt.
C7_AttemptRecorded ==
    [][(\A r \in DOMAIN reqs : C7_Insert(r)) /\ attempts \subseteq attempts']_vars

\* two attempts are stored, and time has passed since one was
C7_TwoAttempts ==
    /\ Cardinality(attempts) = 2
    /\ \E a \in attempts : a.date < now

C8_NoSuchTopic(r) ==
    LET q == reqs[r]
    IN  (q.kind = "random" /\ q.pc = "findTopic" /\ reqs'[r] # q
            /\ \A t \in topics : t.name # q.body.topicName) =>
            /\ reqs'[r].pc = "done"
            /\ Len(reqs'[r].resp) = 1 /\ Status(reqs'[r]) = 404
            /\ reqs'[r].ops = <<"topic.findUnique">>

C8_NoRead ==
    \A r \in Requests("random") :
        reqs[r].topic = {} =>
            /\ \A k \in DOMAIN reqs[r].ops : reqs[r].ops[k] = "topic.findUnique"
            /\ \A k \in DOMAIN reqs[r].resp : reqs[r].resp[k].status # 200

\* C8: GET /random for a topicName no Topic row has is answered 404, never
\* 200, and reads no question and no choice.
C8_UnknownTopic == []C8_NoRead /\ [][\A r \in DOMAIN reqs : C8_NoSuchTopic(r)]_vars

C8_Answered404 ==
    \E r \in Requests("random") : reqs[r].pc = "done" /\ Status(reqs[r]) = 404

\* the credential of q is absent, has no token, is signed with another key
\* or had expired when q arrived
BadCredential(q) ==
    \/ ~q.auth.present
    \/ q.auth.token = {}
    \/ \E t \in q.auth.token : t.key # "JWT_SECRET" \/ t.exp <= q.at

\* C9: a POST /submit or GET /api/profile with a bad credential is answered
\* 401 and issues no operation on the store.
C9_Unauthorized ==
    \A r \in Requests("submit") \cup Requests("profile") :
        BadCredential(reqs[r]) =>
            /\ reqs[r].ops = <<>>
            /\ Answered(reqs[r]) => Status(reqs[r]) = 401

InvalidCount(body) ==
    \/ ~Has(body, "count")
    \/ Number(body.count).nan
    \/ Number(body.count).val <= 0

\* C10: GET /random with a missing or invalid count (not a number, zero,
\* negative) or a missing topicName is answered 400.
C10_InvalidArgument ==
    \A r \in Requests("random") :
        (reqs[r].pc = "done" /\ (InvalidCount(reqs[r].body) \/ Falsy(reqs[r].body, "topicName")))
            => Status(reqs[r]) = 400

C11_Refused(r) ==
    LET q == reqs[r]
    IN  (q.kind = "submit" /\ q.pc = "createAttempt" /\ reqs'[r] # q
            /\ \A u \in users : u.id # q.body.userId) =>
            /\ reqs'[r].pc = "done"
            /\ Len(reqs'[r].resp) = 1 /\ Status(reqs'[r]) = 500
            /\ store' = store

\* C11: a POST /submit whose userId names no User row is answered with an
\* error (500) and leaves every table as it was: no ExamAttempt row is added,
\* and no ExamAttempt row ever names a user that does not exist.
C11_UnknownUser ==
    /\ [](\A a \in attempts : \E u \in users : u.id = a.userId)
    /\ [][\A r \in DOMAIN reqs : C11_Refused(r)]_vars

\* a POST /submit for an unknown user answered 500 while another user's
\* attempt is stored
C11_Answered500 ==
    \E r \in Requests("submit") :
        /\ reqs[r].pc = "done" /\ Status(reqs[r]) = 500
        /\ reqs[r].body.userId = UnknownId
        /\ reqs[r].ops = <<"examAttempt.create">>
        /\ attempts # {}

\* r1 and r2 are POST /create handled at the same time (r2 arrived before
\* r1 was answered), both well formed, and no row was deleted on the store
Racing(r1, r2) ==
    /\ reqs[r1].kind = "create" /\ reqs[r2].kind = "create"
    /\ r1 < r2 /\ r1 \notin reqs[r2].prior
    /\ WellFormed(reqs[r1].body) /\ WellFormed(reqs[r2].body)
    /\ deletes = <<>>

\* C12: of two POST /create handled at the same time that name the same new
\* subject or topic, neither is answered with a failure, one row holds the
\* name, and both resolve to that row.
C12_NeitherFails ==
    \A r1, r2 \in DOMAIN reqs :
        (/\ Racing(r1, r2)
         /\ \/ reqs[r1].body.subjectName = reqs[r2].body.subjectName
            \/ reqs[r1].body.topicName = reqs[r2].body.topicName) =>
            /\ \A r \in {r1, r2} : Answered(reqs[r]) => Status(reqs[r]) = 201
            /\ \A x, y \in subjects : x.name = y.name => x = y
            /\ \A x, y \in topics : x.name = y.name => x = y
            /\ (reqs[r1].subject # {} /\ reqs[r2].subject # {}
                    /\ reqs[r1].body.subjectName = reqs[r2].body.subjectName)
                    => reqs[r1].subject = reqs[r2].subject
            /\ (reqs[r1].topic # {} /\ reqs[r2].topic # {}
                    /\ reqs[r1].body.topicName = reqs[r2].body.topicName)
                    => reqs[r1].topic = reqs[r2].topic

\* the rows request r has written
WrittenBy(r) ==
    {x \in subjects \cup topics : x.id = Id(r, 0, 0)}
    \cup {x \in questions : x.id[1] = r}
    \cup {c \in choices : c.id[1] = r}

\* C13: a POST /create whose body lacks the questions list, or has a
\* question without a choices list, is rejected (not answered 201) and has
\* written no Subject, Topic, Question or Choice row.
C13_RejectedBeforeWrite ==
    \A r \in Requests("create") :
        ~WellFormed(reqs[r].body) =>
            /\ Answered(reqs[r]) => Status(reqs[r]) # 201
            /\ WrittenBy(r) = {}

C14_Upsert(r) ==
    LET q == reqs[r]
    IN  (q.kind = "create" /\ q.pc = "upsertTopic" /\ reqs'[r] # q) =>
            \A t \in topics :
                (t.name = q.body.topicName /\ t.subjectId # Only(q.subject).id) =>
                    /\ topics' = topics
                    /\ reqs'[r].topic = {t}
                    /\ reqs'[r].pc \in {"createQuestions", "done"}

\* every question a POST /create has written is under the topic it resolved
C14_Attached ==
    \A r \in Requests("create") :
        reqs[r].topic # {} =>
            \A x \in questions : x.id[1] = r => x.topicId = Only(reqs[r].topic).id

\* C14: a POST /create naming a topic that exists under another subject
\* than the one it asks for resolves to that Topic row and leaves it as it
\* is; no step changes the subjectId of a Topic row; the questions of the
\* call are written under that row.
C14_TopicKept ==
    /\ []C14_Attached
    /\ [][/\ \A r \in DOMAIN reqs : C14_Upsert(r)
          /\ \A t \in topics : \A u \in topics' : u.id = t.id => u = t]_vars

\* answered 201 with a question stored under a topic of another subject
C14_OtherSubject ==
    \E r \in Requests("create") :
        /\ reqs[r].pc = "done" /\ Status(reqs[r]) = 201
        /\ reqs[r].topic \subseteq topics
        /\ Only(reqs[r].topic).subjectId # Only(reqs[r].subject).id
        /\ \E x \in questions : x.id = Id(r, 1, 0) /\ x.topicId = Only(reqs[r].topic).id

C15_Step(r) ==
    LET q == reqs[r]
    IN  q.kind = "create" =>
            \* a resolution that completes leaves its row in the store
            /\ (q.subject = {} /\ reqs'[r].subject # {}) => reqs'[r].subject \subseteq subjects'
            /\ (q.topic = {} /\ reqs'[r].topic # {}) => reqs'[r].topic \subseteq topics'
            \* a question or choice of r is written after both have completed
            /\ (\E x \in (questions' \ questions) \cup (choices' \ choices) : x.id[1] = r) =>
                    /\ q.subject # {} /\ q.topic # {}
                    /\ Len(q.ops) >= 2
                    /\ q.ops[1] = "subject.upsert" /\ q.ops[2] = "topic.upsert"
            \* and so is every create it issues
            /\ (Len(reqs'[r].ops) > Len(q.ops)
                    /\ reqs'[r].ops[Len(reqs'[r].ops)] = "question.create") =>
                    q.subject # {} /\ q.topic # {}

\* C15: a POST /create issues no question.create, and writes no Question or
\* Choice row, before its subject.upsert and then its topic.upsert have
\* completed, each leaving the row it resolved to in the store.
C15_ResolveFirst == [][\A r \in DOMAIN reqs : C15_Step(r)]_vars

\* across calls there is no such order: a question of the later call is in
\* the store while the earlier call has not resolved its subject
C15_NoOrderAcross ==
    \E r1, r2 \in Requests("create") :
        /\ r1 < r2
        /\ reqs[r1].pc = "upsertSubject"
        /\ \E x \in questions : x.id[1] = r2

C16_Step(r) ==
    LET q == reqs[r]
        after == reqs'[r]
    IN  q.kind = "create" =>
            \* the failure of a question is answered 500 with no list, and
            \* takes nothing out of the store
            /\ (~q.failed /\ after.failed) =>
                    /\ after.resp = <<Response(500)>>
                    /\ after.resp[1].questions = <<>>
                    /\ subjects \subseteq subjects' /\ topics \subseteq topics'
                    /\ questions \subseteq questions' /\ choices \subseteq choices'
            \* that answer is the only one, also when more questions fail
            /\ q.failed => after.resp = q.resp
            \* what the call has written stays, failed or not, unless a row
            \* is deleted directly on the store
            /\ deletes' = deletes =>
                    /\ \A x \in subjects \cup topics : x.id = Id(r, 0, 0) => x \in subjects' \cup topics'
                    /\ \A x \in questions : x.id[1] = r => x \in questions'
                    /\ \A c \in choices : c.id[1] = r => c \in choices'
            \* no retry: each question is tried once
            /\ Has(q.body, "questions") =>
                    Len(SelectSeq(after.ops, LAMBDA o : o = "question.create"))
                        <= Len(q.body.questions)

\* C16: when a question of a POST /create fails, the call is answered 500
\* once, with no list of questions; the questions of the call that
\* committed, and the Subject and Topic rows it created, are not taken
\* back, and no create is tried again.
C16_NoRollback == [][\A r \in DOMAIN reqs : C16_Step(r)]_vars

\* answered 500 for its second question, with its first question, the
\* choice of that question, and the subject and topic it created stored
C16_PartlyStored ==
    \E r \in Requests("create") :
        /\ reqs[r].pc = "done" /\ reqs[r].failed
        /\ reqs[r].resp = <<Response(500)>>
        /\ \E x \in questions : x.id = Id(r, 1, 0)
        /\ \E c \in choices : c.questionId = Id(r, 1, 0)
        /\ \E x \in subjects : x.id = Id(r, 0, 0)
        /\ \E t \in topics : t.id = Id(r, 0, 0)
        /\ \A x \in questions : x.id # Id(r, 2, 0)

\* C17: in every state, every Question row a POST /create has written has
\* as many Choice rows as the body declares for it, and every Choice row
\* has its Question row.
C17_QuestionWithChoices ==
    /\ \A c \in choices : \E x \in questions : x.id = c.questionId
    /\ \A x \in questions :
            /\ reqs[x.id[1]].kind = "create"
            /\ Cardinality({c \in choices : c.questionId = x.id})
                    = Len(reqs[x.id[1]].body.questions[x.id[2]].choices)

\* a call that has failed and a call still creating, each with a question
\* in the store, one of them with two choices
C17_InFlight ==
    \E r1, r2 \in Requests("create") :
        /\ reqs[r1].failed /\ \E x \in questions : x.id[1] = r1
        /\ reqs[r2].pc = "createQuestions" /\ reqs[r2].pending # {}
        /\ \E x \in questions :
                x.id[1] = r2 /\ Cardinality({c \in choices : c.questionId = x.id}) = 2

\* the identity provider's uid for an email, if it knows the email
UidOf(email) == {f.uid : f \in {f \in fbUsers : f.email = email}}

C19_Step(r) ==
    LET q == reqs[r]
        after == reqs'[r]
    IN  (q.kind = "login" /\ q.resp = <<>> /\ after.resp # <<>>) =>
            LET answer == after.resp[1]
            IN  \* a token comes with a 200, for an email the provider knows,
                \* and the User row of that uid is in the store
                /\ (answer.status = 200 \/ answer.token # {}) =>
                        /\ answer.status = 200
                        /\ UidOf(q.body.email) # {}
                        /\ answer.token = {Sign(Only(UidOf(q.body.email)))}
                        /\ \E u \in users' : u.firebaseId \in UidOf(q.body.email)
                \* the row was missing: the later index file has created it,
                \* the earlier one answers 404
                /\ (UidOf(q.body.email) # {}
                        /\ \A u \in users : u.firebaseId \notin UidOf(q.body.email)) =>
                        IF build = "part_000"
                        THEN answer.status = 404 /\ users' = users
                        ELSE \/ answer.status = 200 /\ after.ops = <<"user.findUnique", "user.create">>
                             \/ answer.status = 500 /\ users' = users
                \* an email the provider does not know
                /\ UidOf(q.body.email) = {} => answer.status = 401 /\ after.ops = <<>>

\* C19: a login is answered 200 with a token only when the User row of the
\* provider's uid for the email is in the store as it answers; when the row
\* is missing the login creates it first (src/src/index.ts) or answers 404
\* with no token (the earlier index file); no token is ever signed for an
\* email the provider does not know.
C19_TokenNeedsRow ==
    /\ [](\A t \in tokens : \E f \in fbUsers : f.uid = t.id)
    /\ [][\A r \in DOMAIN reqs : C19_Step(r)]_vars

\* a login that found no row, created it and was answered 200 with a token
C19_DefensiveCreate ==
    \E r \in Requests("login") :
        /\ reqs[r].pc = "done" /\ Status(reqs[r]) = 200
        /\ reqs[r].ops = <<"user.findUnique", "user.create">>
        /\ reqs[r].resp[1].token # {}
        /\ \E u \in users : u.firebaseId = Only(reqs[r].userRecord).uid

C20_Create(r) ==
    LET q == reqs[r]
        uid == Only(q.userRecord).uid
    IN  (q.kind \in {"register", "login"} /\ q.pc = "userCreate" /\ reqs'[r] # q
            /\ \E u \in users : u.firebaseId = uid \/ u.email = Only(q.userRecord).email) =>
            /\ users' = users
            /\ reqs'[r].pc = "done" /\ Status(reqs'[r]) = 500

\* C20: no two User rows have the same firebaseId or the same email; a
\* create that finds the row of its uid or email already there commits
\* nothing and its request is answered with an error.
C20_UniqueUsers ==
    /\ [](\A u, v \in users : (u.firebaseId = v.firebaseId \/ u.email = v.email) => u = v)
    /\ [][\A r \in DOMAIN reqs : C20_Create(r)]_vars

\* two logins at the same time for one account without a row: both read
\* "absent", one created the row, the other was answered 500
C20_LostCreate ==
    \E r1, r2 \in Requests("login") :
        /\ r1 # r2
        /\ reqs[r1].pc = "done" /\ Status(reqs[r1]) = 200
        /\ reqs[r2].pc = "done" /\ Status(reqs[r2]) = 500
        /\ reqs[r1].ops = <<"user.findUnique", "user.create">>
        /\ reqs[r2].ops = <<"user.findUnique", "user.create">>
        /\ Cardinality(users) = 1

QuizKinds == {"create", "random", "submit"}

\* never two answers; exactly one when the handler is over
C21_AtMostOnce ==
    \A r \in DOMAIN reqs :
        reqs[r].kind \in QuizKinds =>
            /\ Len(reqs[r].resp) <= 1
            /\ reqs[r].pc = "done" => Len(reqs[r].resp) = 1

\* a GET /random answered 400 or 404 issues no operation after the answer
C21_NoOpAfter(r) ==
    LET q == reqs[r]
    IN  (q.kind = "random" /\ Answered(q) /\ Status(q) \in {400, 404}) =>
            /\ q.pc = "done"
            /\ q.ops = IF Status(q) = 400 THEN <<>> ELSE <<"topic.findUnique">>
            /\ Len(reqs'[r].ops) <= Len(q.ops)

\* C21: when the store operations it awaits complete, every POST /create,
\* GET /random and POST /submit comes to its end, with exactly one answer
\* and never a second one, also when several question.create of one call
\* fail; a GET /random answered 400 or 404 issues no store operation
\* after that answer.
C21_OneResponse ==
    /\ []C21_AtMostOnce
    /\ [][\A r \in DOMAIN reqs : C21_NoOpAfter(r)]_vars
    /\ \A r \in 1..MaxRequests :
            [](r \in DOMAIN reqs =>
                    <>(r \in DOMAIN reqs /\ reqs[r].pc \in {"done", "closed"}))

\* a POST /create at its end, both of its question.create refused, answered
\* once
C21_TwoFailures ==
    \E r \in Requests("create") :
        /\ reqs[r].pc = "done" /\ reqs[r].failed
        /\ reqs[r].ops = <<"subject.upsert", "topic.upsert", "question.create", "question.create">>
        /\ \A x \in questions : x.id[1] # r
        /\ reqs[r].resp = <<Response(500)>>

====
